---- MODULE Spec2Model ----
(***************************************************************************)
(* concurrent-downloader.py: download(url, out, chunk_size, max_workers)   *)
(* probes the size of a resource, submits one ranged fetch per chunk to a  *)
(* ThreadPoolExecutor, leaves the pool's `with` block (which joins the     *)
(* workers) and then walks the futures in submission order, copying each   *)
(* chunk's staging file to `out` or re-raising the first exception met.    *)
(*                                                                         *)
(* The coordinator is one process (pc); every submitted future is run by   *)
(* a pool worker in two steps (the response arrives and the staging file   *)
(* is opened; the body is written and the call returns).  The HTTP server, *)
(* the scheduler and the name generator are the environment.               *)
(***************************************************************************)
EXTENDS Integers, Sequences, FiniteSets, TLC

\* ------------------------------------------------------------- bounds
MaxSize == 3          \* largest content-length the probe may report
MaxChunkSize == 2     \* largest chunk_size argument
MaxWorkers == 2       \* largest max_workers argument

MaxLoop == 2          \* iterations modelled of a submission loop that never ends

\* Most futures a session can hold: one per byte when chunk_size >= 1.
MaxTasks == MaxSize
\* Names the temporary-name generator can return.
Names == 1..MaxTasks
\* chunk_size is an unchecked int argument; max_workers < 1 is refused by
\* the executor's constructor and is left out.
ChunkSizes == (0 - 1)..MaxChunkSize
WorkerCounts == 1..MaxWorkers

\* ------------------------------------------------------------- constants
TIMEOUT_SECONDS == 20
PARTIAL_CONTENT == 206
\* Statuses a ranged GET is answered with.
Statuses == {200, PARTIAL_CONTENT, 404}

\* No exception; a header the response does not carry; a name with no file.
NoError == [kind |-> "None", task |-> 0]
NoHeader == [present |-> FALSE, text |-> <<>>]
NoFile == [exists |-> FALSE, data |-> <<>>]
\* A content-length header, its text held as a sequence of decimal digits.
HeaderOf(digits) == [present |-> TRUE, text |-> digits]
\* A staging file that is created but whose body never reaches it.
FileNotWritten(bytes) == [exists |-> TRUE, data |-> <<>>]

\* A file and its content.
FileOf(bytes) == [exists |-> TRUE, data |-> bytes]

VARIABLES
    pc,          \* coordinator: probe, dispatch, join, results, done, raised
    chunk_size,  \* argument
    max_workers, \* argument
    size,        \* int(content-length), set by the probe
    header,      \* the probe's content-length header (absent, or a digit string)
    start,       \* loop variable of the submission loop
    futures,     \* the list of (future, chunk_file), with each future's state
    idx,         \* position of the result loop in futures (1-based)
    files,       \* the temporary directory: name -> content, or NoFile
    out,         \* bytes written to the output sink by this call
    error,       \* the exception download() raised, or NoError
    hung,        \* futures whose network read never returns
    finished     \* futures in the order they reached a terminal state

vars == <<pc, chunk_size, max_workers, size, header, start, futures, idx,
          files, out, error, hung, finished>>

\* ------------------------------------------------------------- helpers
Min(a, b) == IF a <= b THEN a ELSE b

RECURSIVE ParseInt(_)
\* int(s) for a string of decimal digits, held as a sequence of digits.
ParseInt(s) ==
    IF Len(s) = 0 THEN 0
    ELSE 10 * ParseInt(SubSeq(s, 1, Len(s) - 1)) + s[Len(s)]

\* A truth test made on the parsed number instead of on the header text.
TruthyAsNumber(h) == h.present /\ Len(h.text) > 0 /\ ParseInt(h.text) # 0

\* Python truth of headers["content-length"]: a missing header is None, and
\* a string is true unless it is empty ("0" is true).
Truthy(h) == h.present /\ Len(h.text) > 0

\* Headers the probe may see: none, an empty one, or the digits of a size.
Headers == {NoHeader, HeaderOf(<<>>)} \cup {HeaderOf(<<d>>) : d \in 0..MaxSize}

\* The resource served: the byte at offset k is k.
RECURSIVE Slice(_, _)
Slice(a, b) == IF a > b THEN <<>> ELSE <<a>> \o Slice(a + 1, b)

\* The bytes of [range_start, range_end] the resource has.
HonestBody(range_start, range_end, total) ==
    IF range_start < 0 THEN <<>> ELSE Slice(range_start, Min(range_end, total - 1))

\* Bodies a 206 response may carry: the bytes asked for, or a short read.
Bodies(range_start, range_end, total) ==
    LET b == HonestBody(range_start, range_end, total)
    IN  {b} \cup (IF Len(b) > 0 THEN {SubSeq(b, 1, Len(b) - 1)} ELSE {})

\* A join that waits for the queue to drain, not for the running calls.
TerminalOrRunning == {"Running", "Completed", "Failed", "Cancelled"}

\* A pool shut down without waiting: shutdown(wait=False).
AnyState == {"Pending", "Running", "Completed", "Failed", "Cancelled"}

\* States of a future that has run to its end (Future.done()), which
\* shutdown(wait=True) waits for.

Terminal == {"Completed", "Failed", "Cancelled"}

RunningCount == Cardinality({i \in 1..Len(futures) : futures[i].state = "Running"})

\* ------------------------------------------------------------- download()
\* The loop of lines 40-45 ends by itself when chunk_size >= 1 (at most one
\* future per byte); with chunk_size < 1 start never grows, and the model
\* follows MaxLoop iterations of it.
SubmitCap == IF chunk_size >= 1 THEN MaxTasks ELSE MaxLoop

\* line 41
RangeEnd(s, c, total) == Min(s + c - 1, total)

\* A probe that accepts any response.
SizeNeverUnknown(h) == FALSE

\* line 34
SizeUnknown(h) == ~Truthy(h)

\* A generator that only avoids the names of files that exist already.
mktempUnusedFile == {n \in Names : ~files[n].exists}

\* line 42: a name no file of the directory has, and that the generator has
\* not handed out before.
mktemp == {n \in Names : ~files[n].exists /\ \A i \in 1..Len(futures) : futures[i].chunk_file # n}

\* A download_chunk that only refuses the error statuses.
ChunkRaisesOnErrorOnly(status) == status >= 400

\* lines 20-23: download_chunk raises unless the status is 206.
ChunkRaises(status) == status >= 400 \/ status # PARTIAL_CONTENT

\* A pool that starts a thread for every submitted call.
WorkerAlwaysFree == TRUE

\* line 38, ThreadPoolExecutor(max_workers): a worker thread is free.
WorkerFree == RunningCount < max_workers

\* A cancel that marks the future cancelled whatever its state.
CancelAlways(state) == "Cancelled"

\* Future.cancel(): only a pending future is cancelled.
Cancel(state) == IF state = "Pending" THEN "Cancelled" ELSE state

\* lines 50-52
CancelOthers(fs, k) ==
    [i \in 1..Len(fs) |-> IF i = k THEN fs[i] ELSE [fs[i] EXCEPT !.state = Cancel(fs[i].state)]]

\* A result loop that walks the list from its end.
ReverseOrder(k) == Len(futures) + 1 - k

\* A result loop that takes the futures as they completed.
CompletionOrder(k) == IF k <= Len(finished) THEN finished[k] ELSE k

\* line 46: the k-th iteration takes the k-th submitted future.
ResultOrder(k) == k

\* An abort path on which the exception of a later failed future replaces
\* the one being propagated.
RaisedLast(k) ==
    LET failed == {i \in 1..Len(futures) : futures[i].state = "Failed"}
        last == CHOOSE i \in failed : \A j \in failed : j <= i
    IN  IF failed = {} THEN [kind |-> "Timeout", task |-> k] ELSE futures[last].exc

\* lines 48-53: what future.result(timeout) raises for future k, re-raised
\* by the bare `raise` after the cancel calls (which never raise).
Raised(k) ==
    IF futures[k].state = "Failed" THEN futures[k].exc
    ELSE IF futures[k].state = "Cancelled" THEN [kind |-> "Cancelled", task |-> k]
    ELSE [kind |-> "Timeout", task |-> k]

Init ==
    /\ pc = "probe"
    /\ chunk_size \in ChunkSizes
    /\ max_workers \in WorkerCounts
    /\ size = 0
    /\ header = NoHeader
    /\ start = 0
    /\ futures = <<>>
    /\ idx = 1
    /\ files = [n \in Names |-> NoFile]
    /\ out = <<>>
    /\ error = NoError
    /\ hung = {}
    /\ finished = <<>>

\* lines 33-36, the probe cannot be completed
ProbeTransportError ==
    /\ pc = "probe"
    /\ pc' = "raised"
    /\ error' = [kind |-> "TransportError", task |-> 0]
    /\ UNCHANGED <<chunk_size, max_workers, size, header, start, futures, idx,
                   files, out, hung, finished>>

\* lines 33-37
Probe ==
    /\ pc = "probe"
    /\ \E h \in Headers :
        /\ header' = h
        /\ IF SizeUnknown(h)
           THEN /\ pc' = "raised"
                /\ error' = [kind |-> "SizeUnknown", task |-> 0]
                /\ UNCHANGED size
           ELSE /\ pc' = "dispatch"
                /\ size' = ParseInt(h.text)
                /\ UNCHANGED error
    /\ UNCHANGED <<chunk_size, max_workers, start, futures, idx, files, out,
                   hung, finished>>

\* lines 40-45, one iteration
Submit ==
    /\ pc = "dispatch"
    /\ start < size
    /\ Len(futures) < SubmitCap
    /\ \E chunk_file \in mktemp :
        LET end == RangeEnd(start, chunk_size, size)
        IN  /\ futures' = Append(futures,
                    [range_start |-> start, range_end |-> end,
                     chunk_file |-> chunk_file, state |-> "Pending",
                     phase |-> "queued", status |-> 0, body |-> <<>>,
                     exc |-> NoError])
            /\ start' = end + 1
    /\ UNCHANGED <<pc, chunk_size, max_workers, size, header, idx, files, out,
                   error, hung, finished>>

\* line 40, the loop condition is false: the `with` block is left
EndDispatch ==
    /\ pc = "dispatch"
    /\ ~(start < size)
    /\ pc' = "join"
    /\ UNCHANGED <<chunk_size, max_workers, size, header, start, futures, idx,
                   files, out, error, hung, finished>>

\* line 38, ThreadPoolExecutor.__exit__: shutdown(wait=True) returns once
\* every submitted future has run.
Join ==
    /\ pc = "join"
    /\ \A i \in 1..Len(futures) : futures[i].state \in Terminal
    /\ pc' = "results"
    /\ idx' = 1
    /\ UNCHANGED <<chunk_size, max_workers, size, header, start, futures,
                   files, out, error, hung, finished>>

\* A free worker takes the oldest queued future and runs it.
StartTask(i) ==
    /\ i \in 1..Len(futures)
    /\ futures[i].state = "Pending"
    /\ \A j \in 1..(i - 1) : futures[j].state # "Pending"
    /\ WorkerFree
    /\ futures' = [futures EXCEPT ![i].state = "Running", ![i].phase = "request"]
    /\ UNCHANGED <<pc, chunk_size, max_workers, size, header, start, idx,
                   files, out, error, hung, finished>>

\* lines 19-24: the response arrives; the call raises or opens its file
Respond(i) ==
    /\ i \in 1..Len(futures)
    /\ futures[i].state = "Running"
    /\ futures[i].phase = "request"
    /\ i \notin hung
    /\ \E status \in Statuses :
        IF ChunkRaises(status)
        THEN /\ futures' = [futures EXCEPT ![i].state = "Failed",
                                ![i].phase = "raised",
                                ![i].status = status,
                                ![i].exc = [kind |-> IF status >= 400 THEN "HttpStatus"
                                                     ELSE "UnsupportedRange",
                                            task |-> i]]
             /\ finished' = Append(finished, i)
             /\ UNCHANGED files
        ELSE /\ \E body \in Bodies(futures[i].range_start, futures[i].range_end, size) :
                    futures' = [futures EXCEPT ![i].phase = "opened",
                                    ![i].status = status, ![i].body = body]
             /\ files' = [files EXCEPT ![futures[i].chunk_file] = FileOf(<<>>)]
             /\ UNCHANGED finished
    /\ UNCHANGED <<pc, chunk_size, max_workers, size, header, start, idx, out,
                   error, hung>>

\* lines 25-29: the body is written and synced, the call returns
WriteAndReturn(i) ==
    /\ i \in 1..Len(futures)
    /\ futures[i].state = "Running"
    /\ futures[i].phase = "opened"
    /\ files' = [files EXCEPT ![futures[i].chunk_file] = FileOf(futures[i].body)]
    /\ futures' = [futures EXCEPT ![i].state = "Completed", ![i].phase = "returned"]
    /\ finished' = Append(finished, i)
    /\ UNCHANGED <<pc, chunk_size, max_workers, size, header, start, idx, out,
                   error, hung>>

\* line 19: the request is never answered
Hang(i) ==
    /\ i \in 1..Len(futures)
    /\ futures[i].state = "Running"
    /\ futures[i].phase = "request"
    /\ i \notin hung
    /\ hung' = hung \cup {i}
    /\ UNCHANGED <<pc, chunk_size, max_workers, size, header, start, futures,
                   idx, files, out, error, finished>>

\* lines 46-55, one iteration.  future.result(timeout) returns at once for a
\* completed future and raises for a failed or cancelled one; for a future
\* still pending or running it raises TimeoutError after TIMEOUT_SECONDS.
Result ==
    /\ pc = "results"
    /\ idx <= Len(futures)
    /\ LET k == ResultOrder(idx)
           f == futures[k]
       IN  IF f.state = "Completed"
           THEN IF ~files[f.chunk_file].exists
                THEN /\ pc' = "raised"
                     /\ error' = [kind |-> "FileNotFound", task |-> k]
                     /\ UNCHANGED <<out, idx, futures>>
                ELSE /\ out' = out \o files[f.chunk_file].data
                     /\ idx' = idx + 1
                     /\ UNCHANGED <<pc, error, futures>>
           ELSE /\ pc' = "raised"
                /\ error' = Raised(k)
                /\ futures' = CancelOthers(futures, k)
                /\ UNCHANGED <<out, idx>>
    /\ UNCHANGED <<chunk_size, max_workers, size, header, start, files, hung,
                   finished>>

\* line 46, the list is exhausted: download() returns
Return ==
    /\ pc = "results"
    /\ idx > Len(futures)
    /\ pc' = "done"
    /\ UNCHANGED <<chunk_size, max_workers, size, header, start, futures, idx,
                   files, out, error, hung, finished>>

Worker ==
    \E i \in 1..MaxTasks : StartTask(i) \/ Respond(i) \/ WriteAndReturn(i) \/ Hang(i)

Next ==
    \/ ProbeTransportError
    \/ Probe
    \/ Submit
    \/ EndDispatch
    \/ Join
    \/ Worker
    \/ Result
    \/ Return

Spec == Init /\ [][Next]_vars

\* Every enabled step of the coordinator and of the workers is eventually
\* taken: the threads are scheduled and a request that is not hung returns.
FairSpec == Spec /\ WF_vars(Next)

Done == pc = "done"
Aborted == pc = "raised"

\* ------------------------------------------------------------- properties
Tasks == 1..Len(futures)
FailedTasks == {i \in Tasks : futures[i].state = "Failed"}
\* The probe gave a size: the session went on to dispatch.
Dispatched == pc \notin {"probe"} /\ error.kind \notin {"TransportError", "SizeUnknown"}
\* Bytes the request for future i asked for.
RangeLength(i) == futures[i].range_end - futures[i].range_start + 1

RECURSIVE StagedUpTo(_)
\* The bodies staged by futures 1..n, one after the other.
StagedUpTo(n) == IF n = 0 THEN <<>> ELSE StagedUpTo(n - 1) \o futures[n].body

\* C1: no byte reaches the output sink unless every fetch task is
\* Completed, and a session that ends with an error has written nothing.
C1_NoOutputUnlessAllCompleted ==
    /\ out # <<>> => \A i \in Tasks : futures[i].state = "Completed"
    /\ Aborted => out = <<>>

C3_ConcurrencyBound ==
    /\ [](RunningCount <= max_workers)
    /\ [][\A i \in Tasks :
            (futures[i].state = "Pending" /\ i \in 1..Len(futures')
                /\ futures'[i].state = "Running") => RunningCount < max_workers]_vars

\* Every worker is busy and a submitted task waits.
C3_Witness ==
    /\ RunningCount = max_workers
    /\ \E i \in Tasks : futures[i].state = "Pending"

\* C4: once a task is Failed no Pending task starts running any more, and
\* an aborted session reports the failure that occurred first.
C4_FailFastCancelsPending ==
    /\ [][\A i \in Tasks :
            (FailedTasks # {} /\ futures[i].state = "Pending")
                => futures'[i].state # "Running"]_vars
    /\ [](Aborted /\ FailedTasks # {} =>
            error = futures[CHOOSE k \in 1..Len(finished) :
                        /\ finished[k] \in FailedTasks
                        /\ \A j \in 1..(k - 1) : finished[j] \notin FailedTasks].exc)

\* C5: a session with a fetch that never returns still ends, Aborted.
C5_HungTaskAborts == (chunk_size >= 1 /\ hung # {}) ~> Aborted

\* C6: for size > 0 and chunk_size > 0 the submitted ranges are ascending,
\* contiguous, non-empty, at most chunk_size long, start at 0 and end at
\* size - 1.
C6_RangesCoverExactly ==
    (Dispatched /\ pc # "dispatch" /\ size > 0 /\ chunk_size > 0) =>
        /\ Len(futures) >= 1
        /\ futures[1].range_start = 0
        /\ futures[Len(futures)].range_end = size - 1
        /\ \A i \in Tasks :
            /\ futures[i].range_start <= futures[i].range_end
            /\ RangeLength(i) <= chunk_size
            /\ i > 1 => futures[i].range_start = futures[i - 1].range_end + 1

\* C7: an aborted session raises one error, that of the first future the
\* result loop found not completed; once raised it is never replaced, and
\* the failures of other futures and the cancel calls do not change it.
C7_FirstObservedErrorOnly ==
    /\ [](Aborted => error # NoError)
    /\ [](Aborted /\ Dispatched =>
            /\ idx \in Tasks
            /\ futures[idx].state = "Failed"
            /\ error = futures[idx].exc
            /\ error.task = idx
            /\ \A j \in 1..(idx - 1) : futures[j].state = "Completed")
    /\ [][error # NoError => error' = error]_vars

\* A session aborted in which two tasks failed, the reported one not the
\* first to fail.
C7_Witness ==
    /\ Aborted
    /\ Cardinality(FailedTasks) >= 2
    /\ finished[1] \in FailedTasks
    /\ error.task # finished[1]

\* C8: a task whose body length differs from the length of its range ends
\* Failed, and download() never returns with such a chunk staged.
C8_ShortReadFails ==
    chunk_size >= 1 =>
        \A i \in Tasks :
            (futures[i].phase \in {"opened", "returned"} /\ Len(futures[i].body) # RangeLength(i))
                => (futures[i].state # "Completed" /\ ~Done)

\* C9: a task answered with a status other than 206 ends Failed, and the
\* session then never returns successfully: when it ends, it is Aborted.
C9_NonPartialAborts ==
    \A i \in Tasks :
        (futures[i].phase \in {"opened", "returned", "raised"}
            /\ futures[i].status # PARTIAL_CONTENT) =>
                /\ futures[i].state = "Failed"
                /\ futures[i].exc.kind \in {"HttpStatus", "UnsupportedRange"}
                /\ ~Done
                /\ pc \notin {"probe", "dispatch", "join", "results"} => Aborted

\* A ranged fetch was answered 200 and the session aborted on it.
C9_Witness ==
    /\ Aborted
    /\ error.kind = "UnsupportedRange"
    /\ futures[error.task].status = 200

\* C10: a probe response without content-length ends download() with an
\* error, with no task submitted, no staging name allocated and nothing
\* written.
C10_NoLengthNoDispatch ==
    (pc # "probe" /\ error.kind # "TransportError" /\ ~Truthy(header)) =>
        /\ Aborted
        /\ error.kind = "SizeUnknown"
        /\ futures = <<>>
        /\ \A n \in Names : ~files[n].exists
        /\ out = <<>>

\* The probe was answered without a content-length header.
C10_Witness == Aborted /\ error.kind = "SizeUnknown" /\ ~header.present

\* C11: when the probe reports a size of 0, download() submits no task,
\* writes nothing and does not raise: it goes on to return.
C11_ZeroSizeSucceeds ==
    (pc # "probe" /\ header = HeaderOf(<<0>>)) =>
        /\ size = 0
        /\ futures = <<>>
        /\ out = <<>>
        /\ error = NoError
        /\ ~Aborted
        /\ Done \/ ENABLED (EndDispatch \/ Join \/ Return)

\* download() has returned for a resource of size 0.
C11_Witness == Done /\ header = HeaderOf(<<0>>) /\ futures = <<>> /\ out = <<>>

\* C12: with chunk_size < 1 and size > 0 download() raises a configuration
\* error and submits no fetch task.
C12_BadChunkSizeRejected ==
    (Dispatched /\ chunk_size < 1 /\ size > 0) =>
        /\ futures = <<>>
        /\ pc # "dispatch" => Aborted

\* C13: when download() has ended, returned or raised, no staging file of
\* the session exists any more.
C13_StagingReleased ==
    (Done \/ Aborted) => \A n \in Names : ~files[n].exists

\* C14: with chunk_size >= 1, if no fetch hangs, download() eventually
\* returns or raises; it returns only when every task Completed and, once
\* the size is known, raises only when some task did not.
C14_EndsDoneOrAborted ==
    /\ (chunk_size >= 1) => (<>(hung # {}) \/ <>(Done \/ Aborted))
    /\ [](Done => \A i \in Tasks : futures[i].state = "Completed")
    /\ []((Aborted /\ Dispatched) => \E i \in Tasks : futures[i].state # "Completed")

\* A session of three tasks, none hung, has returned.
C14_Witness == Done /\ Len(futures) = 3 /\ hung = {} /\ chunk_size >= 1

C17_TaskLifecycle ==
    /\ [][\A i \in Tasks :
            \/ futures'[i].state = futures[i].state
            \/ futures[i].state = "Pending" /\ futures'[i].state \in {"Running", "Cancelled"}
            \/ futures[i].state = "Running" /\ futures'[i].state \in {"Completed", "Failed"}]_vars
    /\ [][(pc = "results" /\ pc' = "raised") =>
            \A i \in Tasks :
                futures[i].state \in {"Running", "Completed", "Failed", "Cancelled"}
                    => futures'[i].state = futures[i].state]_vars

\* The abort path has called cancel on a Completed and on a Failed task.
C17_Witness ==
    /\ Aborted
    /\ Dispatched
    /\ \E i, j \in Tasks :
        /\ i # error.task /\ j # error.task
        /\ futures[i].state = "Completed"
        /\ futures[j].state = "Failed"

\* The failed task with the smallest range start.
FirstFailed == CHOOSE i \in FailedTasks : \A j \in FailedTasks : i <= j

\* C18: while the result loop runs, and after it, every task is Completed
\* or Failed; the cancel calls of the abort path change nothing and no task
\* is ever Cancelled.
C18_AllTerminalBeforeResults ==
    /\ []((pc \in {"results", "done"} \/ (Aborted /\ Dispatched)) =>
            \A i \in Tasks : futures[i].state \in {"Completed", "Failed"})
    /\ [](\A i \in Tasks : futures[i].state # "Cancelled")
    /\ [][(pc = "results" /\ pc' = "raised") => futures' = futures]_vars

\* The first of three tasks failed: the abort path called cancel on the
\* other two.
C18_Witness ==
    /\ Aborted
    /\ Len(futures) = 3
    /\ error.task = 1
    /\ futures[2].state = "Completed"

\* C19: the error download() raises is that of the failed task with the
\* smallest range start, whatever the order in which the tasks failed.
C19_LowestFailedTaskReported ==
    (Aborted /\ Dispatched) =>
        /\ FailedTasks # {}
        /\ error.task = FirstFailed
        /\ error = futures[FirstFailed].exc

\* Tasks 1 and 2 both failed, task 2 first, and task 1's error is raised.
C19_Witness ==
    /\ Aborted
    /\ {1, 2} \subseteq FailedTasks
    /\ finished[1] = 2
    /\ error = futures[1].exc
    /\ futures[1].exc # futures[2].exc

====
